---- MODULE Spec2Model ----
(***************************************************************************)
(* Model of scripts/supertonic_daemon.py: the length-prefixed request loop *)
(* of the Supertonic TTS daemon (main(), lines 26-145).                    *)
(*                                                                         *)
(* Byte strings are sequences over 0..255; decoded texts are sequences of  *)
(* Unicode code points.  The synthesis engine (supertonic.TTS) is an       *)
(* external collaborator: each of its calls returns or raises, chosen      *)
(* nondeterministically.  The environment also contains the client (the   *)
(* bytes it puts on stdin before closing it), the interrupt signal and a   *)
(* data channel (stdout) that may reject a write: every step of the daemon *)
(* that reaches the channel finds it accepting or not.  The diagnostic     *)
(* channel (stderr) is taken to accept every write.                        *)
(***************************************************************************)
EXTENDS Integers, Sequences, FiniteSets, TLC

\* ------------------------------------------------------------------ bounds
\* number of items the client puts on stdin before it closes the stream
MaxFrames == 2
\* number of samples in a waveform the engine returns
MaxSamples == 1

\* ------------------------------------------------------- program constants
\* line 55: if text_len > 100_000
MAX_TEXT_LEN == 100000
\* line 30: default total_steps
DEFAULT_STEPS == 5
\* line 118: samples * 32767
PCM_SCALE == 32767

\* ------------------------------------------------------------ string data
\* "PING", "QUIT", "VOICE:", "LANG:", "SPEED:" (lines 66-94), b"PONG\n" (67)
PING == <<80, 73, 78, 71>>
QUIT == <<81, 85, 73, 84>>
VOICE_PREFIX == <<86, 79, 73, 67, 69, 58>>
LANG_PREFIX == <<76, 65, 78, 71, 58>>
SPEED_PREFIX == <<83, 80, 69, 69, 68, 58>>
\* faulty variant: the reply without its newline
PONG_NoNewline == <<80, 79, 78, 71>>

PONG == <<80, 79, 78, 71, 10>>
\* defaults of lines 27-29: "M1", "ko", 1.05
DEFAULT_VOICE == <<77, 49>>
DEFAULT_LANG == <<107, 111>>
DEFAULT_SPEED_ARG == <<49, 46, 48, 53>>

\* ------------------------------------------------------- sequence helpers
Min(a, b) == IF a < b THEN a ELSE b

\* s[:n]
Take(s, n) == SubSeq(s, 1, Min(n, Len(s)))

\* s[n:]
Drop(s, n) == SubSeq(s, n + 1, Len(s))

\* str.startswith
StartsWith(s, p) == Len(s) >= Len(p) /\ SubSeq(s, 1, Len(p)) = p

RECURSIVE Concat(_)
Concat(ss) == IF ss = <<>> THEN <<>> ELSE Head(ss) \o Concat(Tail(ss))

\* -------------------------------------------------------------- framing
\* struct.pack('<I', n): four bytes, least significant first
Pack(n) ==
    << n % 256, (n \div 256) % 256, (n \div 65536) % 256, (n \div 16777216) % 256 >>

\* struct.unpack('<I', header)[0]
Unpack(h) == h[1] + 256 * h[2] + 65536 * h[3] + 16777216 * h[4]

\* faulty variant: the zero-length case is not skipped
IsZeroLength_Never(n) == FALSE

\* line 53: text_len == 0
IsZeroLength(n) == n = 0

\* faulty variant: the limit is written with one zero too many
IsOversized_TenfoldLimit(n) == n > 10 * MAX_TEXT_LEN

\* line 55: text_len > 100_000
IsOversized(n) == n > MAX_TEXT_LEN

\* struct.pack('<I', 0), lines 59, 84, 91, 101
EMPTY_FRAME == Pack(0)

\* faulty variant: the handler logs the error and sends nothing
ErrorReply_Nothing == <<>>

\* line 139: the empty response sent in place of the failed one
ErrorReply == Pack(0)

\* ------------------------------------------------------- bytes.decode('utf-8')
IsCont(b) == b >= 128 /\ b <= 191

\* faulty variant: a byte that opens no sequence is taken as a character of its own
Utf8Width_Lenient(b) ==
    IF b >= 194 /\ b <= 223 THEN 2
    ELSE IF b >= 224 /\ b <= 239 THEN 3
    ELSE IF b >= 240 /\ b <= 244 THEN 4
    ELSE 1

\* number of bytes of the sequence a lead byte opens, 0 for an invalid lead
Utf8Width(b) ==
    IF b < 128 THEN 1
    ELSE IF b >= 194 /\ b <= 223 THEN 2
    ELSE IF b >= 224 /\ b <= 239 THEN 3
    ELSE IF b >= 240 /\ b <= 244 THEN 4
    ELSE 0

\* the second byte of a sequence has a narrower range after E0, ED, F0, F4
Utf8SecondOk(b, c) ==
    CASE b = 224 -> c >= 160 /\ c <= 191
      [] b = 237 -> c >= 128 /\ c <= 159
      [] b = 240 -> c >= 144 /\ c <= 191
      [] b = 244 -> c >= 128 /\ c <= 143
      [] OTHER -> IsCont(c)

Utf8CodePoint(bs, n) ==
    CASE n = 1 -> bs[1]
      [] n = 2 -> (bs[1] - 192) * 64 + (bs[2] - 128)
      [] n = 3 -> (bs[1] - 224) * 4096 + (bs[2] - 128) * 64 + (bs[3] - 128)
      [] OTHER -> (bs[1] - 240) * 262144 + (bs[2] - 128) * 4096
                  + (bs[3] - 128) * 64 + (bs[4] - 128)

\* <<TRUE, code points>>, or <<FALSE, <<>>>> where decode raises UnicodeDecodeError
RECURSIVE Utf8Decode(_)
Utf8Decode(bs) ==
    IF bs = <<>> THEN <<TRUE, <<>>>>
    ELSE LET n == Utf8Width(bs[1])
         IN IF n = 0 \/ Len(bs) < n THEN <<FALSE, <<>>>>
            ELSE IF n >= 2 /\ ~Utf8SecondOk(bs[1], bs[2]) THEN <<FALSE, <<>>>>
            ELSE IF \E i \in 3..n : ~IsCont(bs[i]) THEN <<FALSE, <<>>>>
            ELSE LET rest == Utf8Decode(Drop(bs, n))
                 IN IF rest[1]
                    THEN <<TRUE, <<Utf8CodePoint(bs, n)>> \o rest[2]>>
                    ELSE <<FALSE, <<>>>>

\* ------------------------------------------------------------- str.strip()
IsSpace(c) ==
    \/ c \in {9, 10, 11, 12, 13, 28, 29, 30, 31, 32, 133, 160}
    \/ c \in {5760, 8232, 8233, 8239, 8287, 12288}
    \/ (c >= 8192 /\ c <= 8202)

RECURSIVE LStrip(_)
LStrip(s) == IF s # <<>> /\ IsSpace(s[1]) THEN LStrip(Tail(s)) ELSE s

RECURSIVE RStrip(_)
RStrip(s) ==
    IF s # <<>> /\ IsSpace(s[Len(s)]) THEN RStrip(SubSeq(s, 1, Len(s) - 1)) ELSE s

Strip(s) == RStrip(LStrip(s))

\* -------------------------------------------------------------- float(str)
\* A float is modelled exactly as a decimal: [k, neg, m, e] stands for
\* (-1)^neg * m * 10^e when k = "fin" (m has no trailing zero, e = 0 when
\* m = 0), for +-infinity when k = "inf" and for a NaN when k = "nan".
\* Binary rounding, the overflow of exponents beyond 308 and digits outside
\* ASCII are not modelled; the inputs below stay clear of them.
IsDigit(c) == c >= 48 /\ c <= 57

Lower(c) == IF c >= 65 /\ c <= 90 THEN c + 32 ELSE c

LowerAll(s) == [i \in 1..Len(s) |-> Lower(s[i])]

INF_WORDS == { <<105, 110, 102>>, <<105, 110, 102, 105, 110, 105, 116, 121>> }
NAN_WORD == <<110, 97, 110>>

\* index after the digit run (digits, single underscores between digits) at j
RECURSIVE DigitRunEnd(_, _)
DigitRunEnd(s, j) ==
    IF j <= Len(s) /\ IsDigit(s[j]) THEN DigitRunEnd(s, j + 1)
    ELSE IF j < Len(s) /\ s[j] = 95 /\ IsDigit(s[j + 1]) THEN DigitRunEnd(s, j + 2)
    ELSE j

\* index after the digit part that starts at i, or i when none starts there
DigitPartEnd(s, i) ==
    IF i <= Len(s) /\ IsDigit(s[i]) THEN DigitRunEnd(s, i + 1) ELSE i

\* the digits of s[i .. j-1], underscores dropped
DigitsIn(s, i, j) == SelectSeq(SubSeq(s, i, j - 1), IsDigit)

RECURSIVE NatOf(_)
NatOf(ds) ==
    IF ds = <<>> THEN 0 ELSE 10 * NatOf(SubSeq(ds, 1, Len(ds) - 1)) + (ds[Len(ds)] - 48)

RECURSIVE Normalize(_, _)
Normalize(m, e) ==
    IF m = 0 THEN <<0, 0>>
    ELSE IF m % 10 = 0 THEN Normalize(m \div 10, e + 1)
    ELSE <<m, e>>

Fin(neg, m, e) ==
    LET n == Normalize(m, e) IN [k |-> "fin", neg |-> neg, m |-> n[1], e |-> n[2]]

Inf(neg) == [k |-> "inf", neg |-> neg, m |-> 0, e |-> 0]
NaN == [k |-> "nan", neg |-> FALSE, m |-> 0, e |-> 0]
NoFloat == [k |-> "none", neg |-> FALSE, m |-> 0, e |-> 0]

\* float(s): [ok |-> TRUE, val |-> the float], or ok = FALSE for ValueError
ParseFloat(s) ==
    LET t == Strip(s)
        signed == t # <<>> /\ t[1] \in {43, 45}
        neg == signed /\ t[1] = 45
        i == IF signed THEN 2 ELSE 1
        word == LowerAll(Drop(t, i - 1))
        a == DigitPartEnd(t, i)
        dot == a <= Len(t) /\ t[a] = 46
        b == IF dot THEN DigitPartEnd(t, a + 1) ELSE a
        ints == DigitsIn(t, i, a)
        fracs == IF dot THEN DigitsIn(t, a + 1, b) ELSE <<>>
        hasExp == b <= Len(t) /\ t[b] \in {69, 101}
        esigned == hasExp /\ b + 1 <= Len(t) /\ t[b + 1] \in {43, 45}
        q == IF esigned THEN b + 2 ELSE b + 1
        r == IF hasExp THEN DigitPartEnd(t, q) ELSE b
        ex == IF hasExp
              THEN (IF esigned /\ t[b + 1] = 45 THEN -1 ELSE 1) * NatOf(DigitsIn(t, q, r))
              ELSE 0
        wellFormed == /\ Len(ints) + Len(fracs) > 0
                      /\ hasExp => r > q
                      /\ r = Len(t) + 1
    IN IF word \in INF_WORDS THEN [ok |-> TRUE, val |-> Inf(neg)]
       ELSE IF word = NAN_WORD THEN [ok |-> TRUE, val |-> NaN]
       ELSE IF wellFormed
            THEN [ok |-> TRUE, val |-> Fin(neg, NatOf(ints \o fracs), ex - Len(fracs))]
            ELSE [ok |-> FALSE, val |-> NoFloat]

\* ------------------------------------------------- float32 -> 16-bit PCM
\* A sample is the numerator of a fraction over SAMPLE_DEN, so the nominal
\* range [-1.0, 1.0] is -SAMPLE_DEN..SAMPLE_DEN.  A waveform is an array of
\* rows (the engine returns shape (1, n)).
SAMPLE_DEN == 4

\* wav.flatten(): rows in order
Flatten(wav) == Concat(wav)

\* (sample * 32767).astype(np.int16): truncation toward zero
ToInt16(k) ==
    LET v == k * PCM_SCALE
    IN IF v >= 0 THEN v \div SAMPLE_DEN ELSE -((-v) \div SAMPLE_DEN)

\* the two bytes of an int16 in memory order (little-endian two's complement)
Int16Bytes(q) == LET u == q % 65536 IN << u % 256, u \div 256 >>

\* pcm16.tobytes(): two bytes per sample, in sample order
RECURSIVE ToBytes(_)
ToBytes(qs) == IF qs = <<>> THEN <<>> ELSE Int16Bytes(Head(qs)) \o ToBytes(Tail(qs))

\* lines 117-119
PcmBytes(wav) ==
    LET samples == Flatten(wav)
        pcm16 == [i \in 1..Len(samples) |-> ToInt16(samples[i])]
    IN ToBytes(pcm16)

\* --------------------------------------------- sys.stdout.buffer (BufferedWriter)
\* capacity of the writer's buffer, scaled down from io.DEFAULT_BUFFER_SIZE so
\* that a response of a few samples meets the same cases as real audio does
BUF_SIZE == 5

\* BufferedWriter.write(b) with `buf` pending: b is appended while it fits; else
\* the pending bytes are flushed first and b is sent directly when it exceeds
\* the capacity.  ok = FALSE where the channel raises; the pending bytes stay.
BufWrite(buf, b, accepting) ==
    IF Len(b) <= BUF_SIZE - Len(buf) THEN [ok |-> TRUE, buf |-> buf \o b, sent |-> <<>>]
    ELSE IF ~accepting THEN [ok |-> FALSE, buf |-> buf, sent |-> <<>>]
    ELSE IF Len(b) > BUF_SIZE THEN [ok |-> TRUE, buf |-> <<>>, sent |-> buf \o b]
    ELSE [ok |-> TRUE, buf |-> b, sent |-> buf]

\* BufferedWriter.flush()
BufFlush(buf, accepting) ==
    IF accepting THEN [ok |-> TRUE, buf |-> <<>>, sent |-> buf]
    ELSE [ok |-> FALSE, buf |-> buf, sent |-> <<>>]

\* faulty variant: the flush() after the write is missing
BufWriteFlush_NoFlush(buf, b, accepting) == BufWrite(buf, b, accepting)

\* write(b) followed by flush(), lines 59-60, 67-68, 84-85, 91-92, 101-102, 139-140
BufWriteFlush(buf, b, accepting) ==
    LET w == BufWrite(buf, b, accepting)
        f == BufFlush(w.buf, accepting)
    IN IF w.ok THEN [ok |-> f.ok, buf |-> f.buf, sent |-> w.sent \o f.sent] ELSE w

\* ------------------------------------------------------ command dispatch
\* faulty variant: the ping command is matched as a prefix
Classify_PingPrefix(t) ==
    IF StartsWith(t, PING) THEN "ping"
    ELSE IF t = QUIT THEN "quit"
    ELSE IF StartsWith(t, VOICE_PREFIX) THEN "voice"
    ELSE IF StartsWith(t, LANG_PREFIX) THEN "lang"
    ELSE IF StartsWith(t, SPEED_PREFIX) THEN "speed"
    ELSE "synth"

\* faulty variant: the quit command is matched in lower case
Classify_LowercaseQuit(t) ==
    IF t = PING THEN "ping"
    ELSE IF t = <<113, 117, 105, 116>> THEN "quit"
    ELSE IF StartsWith(t, VOICE_PREFIX) THEN "voice"
    ELSE IF StartsWith(t, LANG_PREFIX) THEN "lang"
    ELSE IF StartsWith(t, SPEED_PREFIX) THEN "speed"
    ELSE "synth"

\* lines 66-105: the if/elif chain over the decoded text
Classify(t) ==
    IF t = PING THEN "ping"
    ELSE IF t = QUIT THEN "quit"
    ELSE IF StartsWith(t, VOICE_PREFIX) THEN "voice"
    ELSE IF StartsWith(t, LANG_PREFIX) THEN "lang"
    ELSE IF StartsWith(t, SPEED_PREFIX) THEN "speed"
    ELSE "synth"

\* line 75: text[6:].strip()
NewVoice(t) == Strip(Drop(t, 6))

\* faulty variant: the remainder is stored as it stands
NewLang_Unstripped(t) == Drop(t, 5)

\* line 88: text[5:].strip()
NewLang(t) == Strip(Drop(t, 5))

\* faulty variant: a value that does not parse resets the speed to the default
NewSpeed_DefaultOnError(t, old) ==
    LET p == ParseFloat(Strip(Drop(t, 6)))
    IN IF p.ok THEN p.val ELSE ParseFloat(DEFAULT_SPEED_ARG).val

\* lines 95-99: float(text[6:].strip()), the old speed kept on ValueError
NewSpeed(t, old) ==
    LET p == ParseFloat(Strip(Drop(t, 6))) IN IF p.ok THEN p.val ELSE old

\* the handle tts.get_voice_style(voice_name=v) returns: opaque, derived from v
StyleOf(v) == [of |-> v]

\* faulty variant: the new name is kept but the style found for it is dropped
ResolveVoice_StaleStyle(found, v, oldVoice, oldStyle) ==
    [voice |-> IF found THEN v ELSE oldVoice, style |-> oldStyle]

\* faulty variant: voice_name is assigned before the lookup is tried
ResolveVoice_NameFirst(found, v, oldVoice, oldStyle) ==
    [voice |-> v, style |-> IF found THEN [of |-> v] ELSE oldStyle]

\* lines 76-81: style and voice_name are assigned when the lookup returns, and
\* neither is when it raises
ResolveVoice(found, v, oldVoice, oldStyle) ==
    IF found THEN [voice |-> v, style |-> StyleOf(v)]
    ELSE [voice |-> oldVoice, style |-> oldStyle]

\* --------------------------------------------------------- the environment
\* "F1", "en"
F1 == <<70, 49>>
EN == <<101, 110>>

\* sys.argv[1:]: at most the voice, the language and the speed
Argvs == { <<>> }

\* a well-formed request frame
Frame(payload) == Pack(Len(payload)) \o payload

\* what a client puts on stdin in one go
Items ==
    { Frame(PING),
      Frame(PING \o <<32>>),
      Frame(<<118, 111, 105, 99, 101, 58>> \o F1),
      Frame(QUIT),
      Frame(VOICE_PREFIX \o F1),
      Frame(LANG_PREFIX \o <<32>> \o EN),
      Frame(LANG_PREFIX),
      Frame(SPEED_PREFIX \o <<49, 46, 50>>),
      Frame(SPEED_PREFIX \o <<120>>),
      Frame(SPEED_PREFIX \o <<48>>),
      Frame(<<195, 169>>),
      Frame(<<255>>),
      Pack(0),
      Pack(MAX_TEXT_LEN + 1),
      Pack(MAX_TEXT_LEN) \o <<104>> }

RECURSIVE StreamsOf(_)
StreamsOf(k) ==
    IF k = 0 THEN { <<>> }
    ELSE LET S == StreamsOf(k - 1) IN S \cup { s \o it : s \in S, it \in Items }

\* the frames a client may be in the middle of sending when the stream
\* closes: cut at any byte, they give every short header, the text PING under
\* a header of 5, a VOICE: command short of its last byte, and a lone UTF-8
\* lead byte
CutItems ==
    { Frame(PING \o <<32>>),
      Frame(VOICE_PREFIX \o F1),
      Frame(<<195, 169>>) }

\* every stream of at most MaxFrames items, whole or with the stream closed
\* somewhere inside the last one
Streams ==
    StreamsOf(MaxFrames)
    \cup UNION { { s \o Take(it, n) : n \in 1..(Len(it) - 1) } :
                    s \in StreamsOf(MaxFrames - 1), it \in CutItems }

\* the waveforms the engine may return: one row of no samples, or of MaxSamples
\* samples in the nominal range
Wavs == { << <<>> >>, << [i \in 1..MaxSamples |-> IF i % 2 = 1 THEN -SAMPLE_DEN ELSE 1] >> }

\* tts.synthesize returns (wav, duration), or it (or lines 117-125) raises
SynthOutcomes == { [ok |-> FALSE, wav |-> <<>>] } \cup { [ok |-> TRUE, wav |-> w] : w \in Wavs }

\* ------------------------------------------------------------------ state
VARIABLES
    pc,          \* where main() is: LOADING, READY (blocked in the header read),
                 \* PAYLOAD, RESOLVING, SYNTHESIZING, RESPOND_LENGTH,
                 \* RESPOND_PAYLOAD, RESPOND_FLUSH, HANDLER, TERMINATED (main
                 \* returned), CRASHED (an exception left main)
    stdin,       \* the bytes of the input stream not read yet; end of stream after them
    wbuf,        \* bytes pending in sys.stdout.buffer (what is left there when
                 \* main() ends is flushed by the interpreter's shutdown)
    stdout,      \* bytes that reached the data channel
    stderr,      \* lines written to the diagnostic channel
    voice_name, style, lang, speed, total_steps,
    text_len, text, pcm_bytes,
    exit,        \* why the loop was left: none, eof, quit, interrupt, write_failed, crash
    input,       \* history: everything the client puts on stdin
    cur,         \* history: the request cycle in progress
    cycles       \* history: the request cycles that ended, in order

vars == << pc, stdin, wbuf, stdout, stderr, voice_name, style, lang, speed,
           total_steps, text_len, text, pcm_bytes, exit, input, cur, cycles >>

\* the Session State of the loop
Session == [voice |-> voice_name, style |-> style, lang |-> lang, speed |-> speed]

sessionVars == << voice_name, style, lang, speed, total_steps >>

\* the last line main() writes, line 144
STOPPED == "Daemon stopped."

\* the history record of a cycle that starts now, nothing read yet
Fresh(isOpen) ==
    [ open |-> isOpen, head |-> <<>>, hdr |-> -1, raw |-> <<>>, decoded |-> FALSE,
      text |-> <<>>,
      pre |-> Session, post |-> Session, out |-> <<>>, rejected |-> FALSE,
      handled |-> FALSE, calls |-> <<>>, end |-> "none" ]

\* lines 27-30: the session values taken from the command line
ArgVoice(argv) == IF Len(argv) > 0 THEN argv[1] ELSE DEFAULT_VOICE
ArgLang(argv) == IF Len(argv) > 1 THEN argv[2] ELSE DEFAULT_LANG
ArgSpeed(argv) == ParseFloat(IF Len(argv) > 2 THEN argv[3] ELSE DEFAULT_SPEED_ARG)

\* lines 27-34: the state in which model loading starts
Init ==
    \E argv \in Argvs, stream \in Streams :
        /\ pc = "LOADING"
        /\ input = stream
        /\ stdin = stream
        /\ wbuf = <<>>
        /\ stdout = <<>>
        /\ stderr = << "LOADING" >>
        /\ voice_name = ArgVoice(argv)
        /\ style = StyleOf(<<>>)
        /\ lang = ArgLang(argv)
        /\ speed = ArgSpeed(argv).val
        /\ total_steps = DEFAULT_STEPS
        /\ text_len = 0
        /\ text = <<>>
        /\ pcm_bytes = <<>>
        /\ exit = "none"
        /\ cycles = <<>>
        /\ cur = [ open |-> FALSE, head |-> <<>>, hdr |-> -1, raw |-> <<>>,
                   decoded |-> FALSE, text |-> <<>>,
                   pre |-> [voice |-> ArgVoice(argv), style |-> StyleOf(<<>>),
                            lang |-> ArgLang(argv), speed |-> ArgSpeed(argv).val],
                   post |-> [voice |-> ArgVoice(argv), style |-> StyleOf(<<>>),
                             lang |-> ArgLang(argv), speed |-> ArgSpeed(argv).val],
                   out |-> <<>>, rejected |-> FALSE, handled |-> FALSE,
                   calls |-> <<>>, end |-> "none" ]

\* ------------------------------------------------------- control transfers
\* the cycle c ends with `how`; its record keeps the session it leaves behind
Closed(c, how) == [c EXCEPT !.post = Session', !.end = how]

\* `continue`, or the end of the loop body: back to the header read
Continue(c) ==
    /\ pc' = "READY"
    /\ cycles' = Append(cycles, Closed(c, "continue"))
    /\ cur' = [Fresh(FALSE) EXCEPT !.pre = Session', !.post = Session']
    /\ exit' = exit

\* `break`: the loop is left, line 144 follows and main() returns
Break(c, how) ==
    /\ pc' = "TERMINATED"
    /\ cycles' = Append(cycles, Closed(c, how))
    /\ cur' = [Fresh(FALSE) EXCEPT !.pre = Session', !.post = Session']
    /\ exit' = how

\* an Exception is raised inside the try block: control goes to line 134
Raise(c) ==
    /\ pc' = "HANDLER"
    /\ cur' = c
    /\ cycles' = cycles
    /\ exit' = exit

\* write(b); flush(); continue -- or the OSError of the channel
Reply(b, c, acc) ==
    LET w == BufWriteFlush(wbuf, b, acc)
    IN /\ wbuf' = w.buf
       /\ stdout' = stdout \o w.sent
       /\ IF w.ok
          THEN Continue([c EXCEPT !.out = @ \o w.sent])
          ELSE Raise([c EXCEPT !.out = @ \o w.sent, !.rejected = TRUE])

\* faulty variant: a header cut short is treated as a failed request
ShortHeader_AsError(c) ==
    /\ stderr' = stderr
    /\ UNCHANGED << wbuf, stdout >>
    /\ Raise(c)

\* lines 49-50 and 144-145: fewer than 4 header bytes end the loop; main()
\* logs its last line and returns
ShortHeader(c) ==
    /\ stderr' = Append(stderr, STOPPED)
    /\ UNCHANGED << wbuf, stdout >>
    /\ Break(c, "eof")

\* --------------------------------------------------------------- actions
\* faulty variant: the readiness line is written once the engine is built,
\* before the default voice style is resolved
Load_ReadyBeforeStyle(engineOk, styleOk) ==
    /\ pc = "LOADING"
    /\ UNCHANGED << stdin, wbuf, stdout, voice_name, lang, speed, total_steps,
                    text_len, text, pcm_bytes, cycles, input >>
    /\ stderr' = IF engineOk THEN Append(stderr, "READY") ELSE stderr
    /\ IF engineOk /\ styleOk
       THEN /\ style' = [of |-> voice_name]
            /\ pc' = "READY"
            /\ exit' = exit
            /\ cur' = [cur EXCEPT !.pre = Session', !.post = Session']
       ELSE /\ style' = style
            /\ pc' = "CRASHED"
            /\ exit' = "crash"
            /\ cur' = cur

\* lines 36-43: engine construction and the default voice style
Load(engineOk, styleOk) ==
    /\ pc = "LOADING"
    /\ UNCHANGED << stdin, wbuf, stdout, voice_name, lang, speed, total_steps,
                    text_len, text, pcm_bytes, cycles, input >>
    /\ IF engineOk /\ styleOk
       THEN /\ style' = StyleOf(voice_name)
            /\ stderr' = Append(stderr, "READY")
            /\ pc' = "READY"
            /\ exit' = exit
            /\ cur' = [cur EXCEPT !.pre = Session', !.post = Session']
       ELSE /\ style' = style
            /\ stderr' = stderr
            /\ pc' = "CRASHED"
            /\ exit' = "crash"
            /\ cur' = cur

\* lines 48-61: the header read, the zero-length and the size-limit cases
ReadHeader(acc) ==
    /\ pc = "READY"
    /\ LET header == Take(stdin, 4)
           c == [Fresh(TRUE) EXCEPT !.head = header]
       IN /\ stdin' = Drop(stdin, 4)
          /\ UNCHANGED << sessionVars, text, pcm_bytes, input >>
          /\ IF Len(header) < 4
             THEN /\ text_len' = text_len
                  /\ ShortHeader(c)
             ELSE LET n == Unpack(header)
                      d == [c EXCEPT !.hdr = n]
                  IN /\ text_len' = n
                     /\ IF IsZeroLength(n)
                        THEN /\ stderr' = stderr
                             /\ UNCHANGED << wbuf, stdout >>
                             /\ Continue(d)
                        ELSE IF IsOversized(n)
                        THEN /\ stderr' = Append(stderr, "ERROR: text too long")
                             /\ Reply(EMPTY_FRAME, d, acc)
                        ELSE /\ stderr' = stderr
                             /\ UNCHANGED << wbuf, stdout >>
                             /\ pc' = "PAYLOAD"
                             /\ cur' = d
                             /\ cycles' = cycles
                             /\ exit' = exit

\* lines 63-113: the payload read, the decoding and the command dispatch
ReadPayload(acc) ==
    /\ pc = "PAYLOAD"
    /\ LET raw == Take(stdin, text_len)
           dec == Utf8Decode(raw)
           t == dec[2]
           c == [cur EXCEPT !.raw = raw, !.decoded = dec[1], !.text = t]
           kind == Classify(t)
       IN /\ stdin' = Drop(stdin, text_len)
          /\ UNCHANGED << text_len, pcm_bytes, total_steps, voice_name, style, input >>
          /\ text' = IF dec[1] THEN t ELSE text
          /\ lang' = IF dec[1] /\ kind = "lang" THEN NewLang(t) ELSE lang
          /\ speed' = IF dec[1] /\ kind = "speed" THEN NewSpeed(t, speed) ELSE speed
          /\ IF ~dec[1]
             THEN /\ UNCHANGED << wbuf, stdout, stderr >>
                  /\ Raise(c)
             ELSE CASE kind = "ping" ->
                         /\ stderr' = stderr
                         /\ Reply(PONG, c, acc)
                    [] kind = "quit" ->
                         /\ stderr' = stderr \o << "QUIT received, exiting.", STOPPED >>
                         /\ UNCHANGED << wbuf, stdout >>
                         /\ Break(c, "quit")
                    [] kind = "voice" ->
                         /\ UNCHANGED << wbuf, stdout, stderr, cycles, exit >>
                         /\ pc' = "RESOLVING"
                         /\ cur' = c
                    [] kind = "lang" ->
                         /\ stderr' = Append(stderr, "LANG changed")
                         /\ Reply(EMPTY_FRAME, c, acc)
                    [] kind = "speed" ->
                         /\ stderr' = Append(stderr,
                                IF ParseFloat(Strip(Drop(t, 6))).ok
                                THEN "SPEED changed" ELSE "ERROR: invalid speed value")
                         /\ Reply(EMPTY_FRAME, c, acc)
                    [] OTHER ->
                         /\ UNCHANGED << wbuf, stdout, stderr, cycles, exit >>
                         /\ pc' = "SYNTHESIZING"
                         /\ cur' = c

\* lines 76-86: tts.get_voice_style returns or raises an Exception
VoiceReturn(found, acc) ==
    /\ pc = "RESOLVING"
    /\ LET v == NewVoice(text)
           c == [cur EXCEPT !.calls = Append(@, [op |-> "get_voice_style", text |-> v,
                     style |-> style, lang |-> lang, speed |-> speed, ok |-> found])]
           s == ResolveVoice(found, v, voice_name, style)
       IN /\ UNCHANGED << stdin, lang, speed, total_steps, text_len, text, pcm_bytes, input >>
          /\ style' = s.style
          /\ voice_name' = s.voice
          /\ stderr' = Append(stderr, IF found THEN "VOICE changed" ELSE "ERROR changing voice")
          /\ Reply(EMPTY_FRAME, c, acc)

\* lines 106-125: tts.synthesize returns or raises; the PCM conversion
SynthReturn(r) ==
    /\ pc = "SYNTHESIZING"
    /\ LET c == [cur EXCEPT !.calls = Append(@, [op |-> "synthesize", text |-> text,
                     style |-> style, lang |-> lang, speed |-> speed, ok |-> r.ok])]
       IN /\ UNCHANGED << stdin, wbuf, stdout, sessionVars, text_len, text, input >>
          /\ IF r.ok
             THEN /\ pcm_bytes' = PcmBytes(r.wav)
                  /\ stderr' = Append(stderr, "SYNTH")
                  /\ pc' = "RESPOND_LENGTH"
                  /\ cur' = c
                  /\ UNCHANGED << cycles, exit >>
             ELSE /\ pcm_bytes' = pcm_bytes
                  /\ stderr' = stderr
                  /\ Raise(c)

\* line 128: write(struct.pack('<I', len(pcm_bytes)))
WriteLength(acc) ==
    /\ pc = "RESPOND_LENGTH"
    /\ LET w == BufWrite(wbuf, Pack(Len(pcm_bytes)), acc)
           c == [cur EXCEPT !.out = @ \o w.sent, !.rejected = @ \/ ~w.ok]
       IN /\ UNCHANGED << stdin, stderr, sessionVars, text_len, text, pcm_bytes, input >>
          /\ wbuf' = w.buf
          /\ stdout' = stdout \o w.sent
          /\ IF w.ok
             THEN /\ pc' = "RESPOND_PAYLOAD"
                  /\ cur' = c
                  /\ UNCHANGED << cycles, exit >>
             ELSE Raise(c)

\* line 129: write(pcm_bytes)
WritePayload(acc) ==
    /\ pc = "RESPOND_PAYLOAD"
    /\ LET w == BufWrite(wbuf, pcm_bytes, acc)
           c == [cur EXCEPT !.out = @ \o w.sent, !.rejected = @ \/ ~w.ok]
       IN /\ UNCHANGED << stdin, stderr, sessionVars, text_len, text, pcm_bytes, input >>
          /\ wbuf' = w.buf
          /\ stdout' = stdout \o w.sent
          /\ IF w.ok
             THEN /\ pc' = "RESPOND_FLUSH"
                  /\ cur' = c
                  /\ UNCHANGED << cycles, exit >>
             ELSE Raise(c)

\* line 130: flush(), then the next iteration
FlushResponse(acc) ==
    /\ pc = "RESPOND_FLUSH"
    /\ LET w == BufFlush(wbuf, acc)
           c == [cur EXCEPT !.out = @ \o w.sent, !.rejected = @ \/ ~w.ok]
       IN /\ UNCHANGED << stdin, stderr, sessionVars, text_len, text, pcm_bytes, input >>
          /\ wbuf' = w.buf
          /\ stdout' = stdout \o w.sent
          /\ IF w.ok THEN Continue(c) ELSE Raise(c)

\* faulty variant: a failed write of the empty frame is passed over and the
\* loop goes on
Handler_KeepLooping(acc) ==
    /\ pc = "HANDLER"
    /\ LET w == BufWriteFlush(wbuf, ErrorReply, acc)
           c == [cur EXCEPT !.out = @ \o w.sent, !.rejected = @ \/ ~w.ok, !.handled = TRUE]
       IN /\ UNCHANGED << stdin, sessionVars, text_len, text, pcm_bytes, input >>
          /\ wbuf' = w.buf
          /\ stdout' = stdout \o w.sent
          /\ stderr' = Append(stderr, "ERROR")
          /\ Continue(c)

\* lines 134-142: the error is logged and an empty frame is sent in its place;
\* when that write fails too the loop is left
Handler(acc) ==
    /\ pc = "HANDLER"
    /\ LET w == BufWriteFlush(wbuf, ErrorReply, acc)
           c == [cur EXCEPT !.out = @ \o w.sent, !.rejected = @ \/ ~w.ok, !.handled = TRUE]
       IN /\ UNCHANGED << stdin, sessionVars, text_len, text, pcm_bytes, input >>
          /\ wbuf' = w.buf
          /\ stdout' = stdout \o w.sent
          /\ IF w.ok
             THEN /\ stderr' = Append(stderr, "ERROR")
                  /\ Continue(c)
             ELSE /\ stderr' = stderr \o << "ERROR", STOPPED >>
                  /\ Break(c, "write_failed")

\* faulty variant: the handler of line 134 catches the interrupt as well
Interrupt_AsError(caught) ==
    /\ pc \in { "LOADING", "READY", "PAYLOAD", "RESOLVING", "SYNTHESIZING",
                "RESPOND_LENGTH", "RESPOND_PAYLOAD", "RESPOND_FLUSH", "HANDLER" }
    /\ caught = (pc # "LOADING")
    /\ UNCHANGED << stdin, wbuf, stdout, stderr, sessionVars, text_len, text,
                    pcm_bytes, input, cycles >>
    /\ pc' = IF pc = "LOADING" THEN "CRASHED" ELSE IF pc = "HANDLER" THEN "TERMINATED" ELSE "HANDLER"
    /\ exit' = IF pc = "LOADING" THEN "crash" ELSE IF pc = "HANDLER" THEN "interrupt" ELSE exit
    /\ cur' = cur

\* SIGINT: KeyboardInterrupt is raised in main().  Inside the try block it is
\* caught at line 132 (the `except Exception` of line 80 lets it through);
\* while loading, and in lines 135-136 of the handler, nothing catches it;
\* in lines 139-140 the bare except of line 141 does.
Interrupt(caught) ==
    /\ pc \in { "LOADING", "READY", "PAYLOAD", "RESOLVING", "SYNTHESIZING",
                "RESPOND_LENGTH", "RESPOND_PAYLOAD", "RESPOND_FLUSH", "HANDLER" }
    /\ caught = IF pc = "LOADING" THEN FALSE ELSE IF pc = "HANDLER" THEN caught ELSE TRUE
    /\ UNCHANGED << stdin, wbuf, stdout, sessionVars, text_len, text, pcm_bytes, input >>
    /\ stderr' = IF caught THEN Append(stderr, STOPPED) ELSE stderr
    /\ pc' = IF caught THEN "TERMINATED" ELSE "CRASHED"
    /\ exit' = IF caught THEN "interrupt" ELSE "crash"
    /\ cycles' = IF cur.open
                 THEN Append(cycles, Closed(cur, IF caught THEN "interrupt" ELSE "crash"))
                 ELSE cycles
    /\ cur' = [Fresh(FALSE) EXCEPT !.pre = Session', !.post = Session']

Next ==
    \/ \E engineOk \in BOOLEAN, styleOk \in BOOLEAN : Load(engineOk, styleOk)
    \/ \E acc \in BOOLEAN : ReadHeader(acc)
    \/ \E acc \in BOOLEAN : ReadPayload(acc)
    \/ \E found \in BOOLEAN, acc \in BOOLEAN : VoiceReturn(found, acc)
    \/ \E r \in SynthOutcomes : SynthReturn(r)
    \/ \E acc \in BOOLEAN : WriteLength(acc)
    \/ \E acc \in BOOLEAN : WritePayload(acc)
    \/ \E acc \in BOOLEAN : FlushResponse(acc)
    \/ \E acc \in BOOLEAN : Handler(acc)
    \/ \E caught \in BOOLEAN : Interrupt(caught)

Spec == Init /\ [][Next]_vars

\* a step of main() itself: a read returns (the stream is closed behind the
\* input), an engine call returns or raises, a write returns or raises
Step ==
    \/ \E engineOk \in BOOLEAN, styleOk \in BOOLEAN : Load(engineOk, styleOk)
    \/ \E acc \in BOOLEAN : ReadHeader(acc)
    \/ \E acc \in BOOLEAN : ReadPayload(acc)
    \/ \E found \in BOOLEAN, acc \in BOOLEAN : VoiceReturn(found, acc)
    \/ \E r \in SynthOutcomes : SynthReturn(r)
    \/ \E acc \in BOOLEAN : WriteLength(acc)
    \/ \E acc \in BOOLEAN : WritePayload(acc)
    \/ \E acc \in BOOLEAN : FlushResponse(acc)
    \/ \E acc \in BOOLEAN : Handler(acc)

\* main() has neither returned nor been left by an exception; it then has a
\* step to take (every pc but the two final ones enables one of the actions
\* of Step, and each of them changes pc or stdin)
Running == pc \notin { "TERMINATED", "CRASHED" }

\* no call blocks for ever: main() keeps taking steps while it is running.
\* This is WF_vars(Step) with Running written for ENABLED <<Step>>_vars.
LiveSpec == Spec /\ ([]<>(~Running) \/ []<><<Step>>_vars)

\* ============================================================ properties
\* The histories: `cycles` holds one record per header read that ended, `cur`
\* the one in progress.  A cycle is undisturbed when the data channel accepted
\* its writes and no interrupt cut it short.
AllCycles == IF cur.open THEN Append(cycles, cur) ELSE cycles

Undisturbed(c) == ~c.rejected /\ c.end \notin { "interrupt", "crash" }

\* the bytes of the input consumed by the cycles 1..n
RECURSIVE ConsumedBy(_, _)
ConsumedBy(cs, n) ==
    IF n = 0 THEN <<>> ELSE ConsumedBy(cs, n - 1) \o cs[n].head \o cs[n].raw

\* the bytes that reached the data channel during the cycles 1..n
RECURSIVE EmittedBy(_, _)
EmittedBy(cs, n) == IF n = 0 THEN <<>> ELSE EmittedBy(cs, n - 1) \o cs[n].out

\* b is one length-prefixed frame: a little-endian length and as many bytes
IsFrameBytes(b) ==
    /\ Len(b) >= 4
    /\ b[1] + 256 * b[2] + 65536 * b[3] + 16777216 * b[4] = Len(b) - 4

\* the payload of cycle c is the text QUIT / PING
SaysQuit(c) == c.decoded /\ c.text = <<81, 85, 73, 84>>
SaysPing(c) == c.decoded /\ c.text = <<80, 73, 78, 71>>

\* b is one response unit for the request of cycle c
IsUnitFor(c, b) == IF SaysPing(c) THEN b = <<80, 79, 78, 71, 10>> ELSE IsFrameBytes(b)

\* the indexes i of cs with P(cs[i]), in order
Indexes(cs, P(_)) == SelectSeq([i \in 1..Len(cs) |-> i], LAMBDA i : P(cs[i]))

HasOutput(c) == c.out # <<>>
InRangeNotQuit(c) == c.hdr >= 1 /\ c.hdr <= 100000 /\ ~SaysQuit(c)
NonEmptyNotQuit(c) == c.hdr >= 1 /\ ~SaysQuit(c)

C2_Oversized ==
    \A i \in 1..Len(cycles) :
        LET c == cycles[i]
        IN (c.hdr > 100000 /\ ~c.rejected) =>
              /\ c.end = "continue"
              /\ c.out = <<0, 0, 0, 0>>
              /\ c.raw = <<>>
              /\ c.calls = <<>>
              /\ c.post = c.pre
              /\ Len(ConsumedBy(cycles, i)) = Len(ConsumedBy(cycles, i - 1)) + 4
              /\ i = Len(AllCycles) => stdin = Drop(input, Len(ConsumedBy(cycles, i)))

\* witness of C2: an oversized header was answered and the loop went on to
\* answer the PING behind it
C2_Witness ==
    /\ Len(cycles) = 2
    /\ cycles[1].hdr = 100001 /\ cycles[1].out = <<0, 0, 0, 0>>
    /\ SaysPing(cycles[2]) /\ cycles[2].out = <<80, 79, 78, 71, 10>>

\* C3: a header declaring length 0 puts no byte on the data channel, reads no
\* payload, makes no engine call, leaves the session as it was and takes the
\* loop back to the header read.
C3_ZeroLength ==
    \A i \in 1..Len(cycles) :
        LET c == cycles[i]
        IN c.head = <<0, 0, 0, 0>> =>
              /\ c.hdr = 0
              /\ c.end = "continue"
              /\ c.out = <<>> /\ ~c.rejected /\ ~c.handled
              /\ c.raw = <<>>
              /\ c.calls = <<>>
              /\ c.post = c.pre
              /\ i = Len(AllCycles) => stdout = EmittedBy(cycles, i - 1)

\* witness of C3: a zero-length request went by silently and the daemon is
\* back at the header read, with a later request still to come
C3_Witness ==
    /\ pc = "READY"
    /\ Len(cycles) = 1
    /\ cycles[1].head = <<0, 0, 0, 0>>
    /\ stdout = <<>> /\ wbuf = <<>>
    /\ Len(stdin) >= 4

\* C4: whatever the session is, a payload of exactly the bytes PING is
\* answered, when the channel accepts the write, with the five bytes P O N G
\* and newline and nothing else; no length prefix, no engine call, and voice,
\* style, language and speed are as before.
C4_Ping ==
    \A i \in 1..Len(cycles) :
        LET c == cycles[i]
        IN (c.raw = <<80, 73, 78, 71>> /\ ~c.rejected) =>
              /\ c.end = "continue"
              /\ c.out = <<80, 79, 78, 71, 10>>
              /\ ~c.handled
              /\ c.calls = <<>>
              /\ c.post = c.pre

\* witness of C4: PING is answered in a session whose language a command has
\* changed before
C4_Witness ==
    /\ Len(cycles) = 2
    /\ cycles[1].post.lang # cycles[1].pre.lang
    /\ cycles[2].raw = <<80, 73, 78, 71>>
    /\ cycles[2].out = <<80, 79, 78, 71, 10>>
    /\ lang = <<101, 110>>

\* C5: a payload of exactly the bytes QUIT ends the loop: nothing is written
\* for it, no engine call is made, the session is as before, main() has
\* returned after its last diagnostic line, and the bytes behind the QUIT
\* frame stay unread in every state that follows (no later cycle exists).
C5_Quit ==
    \A i \in 1..Len(cycles) :
        LET c == cycles[i]
        IN c.raw = <<81, 85, 73, 84>> =>
              /\ c.end = "quit"
              /\ c.out = <<>> /\ ~c.rejected /\ ~c.handled
              /\ c.calls = <<>>
              /\ c.post = c.pre
              /\ i = Len(cycles) /\ ~cur.open
              /\ pc = "TERMINATED" /\ exit = "quit"
              /\ Session = c.pre
              /\ wbuf = <<>> /\ stdout = EmittedBy(cycles, i - 1)
              /\ stdin = Drop(input, Len(ConsumedBy(cycles, i)))
              /\ stderr[Len(stderr)] = "Daemon stopped."

\* witness of C5: the daemon has terminated on QUIT with a whole VOICE:F1
\* frame queued behind it, unread, and the default voice still in place
C5_Witness ==
    /\ pc = "TERMINATED"
    /\ Len(cycles) = 1
    /\ cycles[1].raw = <<81, 85, 73, 84>>
    /\ stdin = <<8, 0, 0, 0, 86, 79, 73, 67, 69, 58, 70, 49>>
    /\ voice_name = <<77, 49>>

IsVoiceRequest(c) ==
    c.decoded /\ Len(c.text) >= 6 /\ SubSeq(c.text, 1, 6) = <<86, 79, 73, 67, 69, 58>>

\* C6: once loading is done the cached style is always the style of the
\* session voice; an undisturbed VOICE: cycle makes one lookup, of the stripped
\* remainder, and then voice and style are both those of the new identifier
\* (lookup returned) or both what they were (lookup raised), language and
\* speed are untouched, exactly one empty frame is written and the loop goes on.
C6_Voice ==
    /\ Len(stderr) >= 2 => style = [of |-> voice_name]
    /\ \A i \in 1..Len(cycles) :
          LET c == cycles[i]
          IN (IsVoiceRequest(c) /\ Undisturbed(c)) =>
                /\ c.end = "continue"
                /\ c.out = <<0, 0, 0, 0>>
                /\ Len(c.calls) = 1
                /\ c.calls[1].op = "get_voice_style"
                /\ c.calls[1].text = Strip(Drop(c.text, 6))
                /\ c.text = <<86, 79, 73, 67, 69, 58, 70, 49>> => c.calls[1].text = <<70, 49>>
                /\ IF c.calls[1].ok
                   THEN /\ c.post.voice = c.calls[1].text
                        /\ c.post.style = [of |-> c.calls[1].text]
                   ELSE /\ c.post.voice = c.pre.voice
                        /\ c.post.style = c.pre.style
                /\ c.post.lang = c.pre.lang
                /\ c.post.speed = c.pre.speed

\* witness of C6: VOICE:F1 failed and left voice M1 with its style, then
\* VOICE:F1 succeeded and voice and style are those of F1
C6_Witness ==
    /\ pc = "READY"
    /\ Len(cycles) = 2
    /\ IsVoiceRequest(cycles[1]) /\ ~cycles[1].calls[1].ok
    /\ cycles[1].post = [cycles[1].pre EXCEPT !.voice = <<77, 49>>]
    /\ cycles[1].out = <<0, 0, 0, 0>>
    /\ IsVoiceRequest(cycles[2]) /\ cycles[2].calls[1].ok
    /\ voice_name = <<70, 49>> /\ style = [of |-> <<70, 49>>]

IsSpeedRequest(c) ==
    c.decoded /\ Len(c.text) >= 6 /\ SubSeq(c.text, 1, 6) = <<83, 80, 69, 69, 68, 58>>

\* the float 1.2
OnePointTwo == [k |-> "fin", neg |-> FALSE, m |-> 12, e |-> -1]

\* C7: a SPEED: cycle whose remainder does not parse as a float (SPEED:x for
\* one) leaves speed, voice, style and language as they were, writes exactly
\* one empty frame when the channel accepts it and goes on; SPEED:1.2 sets 1.2.
C7_SpeedInvalid ==
    \A i \in 1..Len(cycles) :
        LET c == cycles[i]
            bad == \/ c.text = <<83, 80, 69, 69, 68, 58, 120>>
                   \/ ~ParseFloat(Drop(c.text, 6)).ok
        IN /\ (IsSpeedRequest(c) /\ bad /\ ~c.rejected) =>
                 /\ c.end = "continue"
                 /\ c.out = <<0, 0, 0, 0>>
                 /\ c.calls = <<>>
                 /\ c.post = c.pre
           /\ c.text = <<83, 80, 69, 69, 68, 58, 49, 46, 50>> => c.post.speed = OnePointTwo

\* witness of C7: SPEED:1.2 then SPEED:x, both acknowledged, and the speed is 1.2
C7_Witness ==
    /\ pc = "READY"
    /\ Len(cycles) = 2
    /\ cycles[1].text = <<83, 80, 69, 69, 68, 58, 49, 46, 50>>
    /\ cycles[2].text = <<83, 80, 69, 69, 68, 58, 120>>
    /\ cycles[2].out = <<0, 0, 0, 0>>
    /\ speed = OnePointTwo

SynthFailed(c) ==
    c.calls # <<>> /\ c.calls[Len(c.calls)].op = "synthesize" /\ ~c.calls[Len(c.calls)].ok

\* C8: when the synthesis call raises, the undisturbed cycle writes exactly one
\* empty frame through the handler and no audio, leaves the session as it was
\* and goes on; the request after it is answered like any other.
C8_SynthFailure ==
    \A i \in 1..Len(cycles) :
        LET c == cycles[i]
        IN (SynthFailed(c) /\ Undisturbed(c)) =>
              /\ c.end = "continue"
              /\ c.handled
              /\ c.out = <<0, 0, 0, 0>>
              /\ c.post = c.pre
              /\ (i < Len(cycles) /\ Undisturbed(cycles[i + 1])
                    /\ cycles[i + 1].end = "continue" /\ cycles[i + 1].hdr >= 1)
                 => IsUnitFor(cycles[i + 1], cycles[i + 1].out)

\* witness of C8: a synthesis that raised is followed by one that returned
\* audio, and the daemon is back at the header read
C8_Witness ==
    /\ pc = "READY"
    /\ Len(cycles) = 2
    /\ SynthFailed(cycles[1]) /\ cycles[1].out = <<0, 0, 0, 0>>
    /\ cycles[2].calls # <<>> /\ cycles[2].calls[1].ok /\ Len(cycles[2].out) > 4

\* C9: a payload of declared length 1..100000 that is not valid UTF-8 (the
\* byte FF, or a lead byte C3 with nothing behind it) is never decoded, so no
\* command and no engine call acts on it; the undisturbed cycle writes exactly
\* one empty frame, leaves the session as it was and goes on, the payload
\* bytes consumed in full.
C9_DecodeFailure ==
    \A i \in 1..Len(cycles) :
        LET c == cycles[i]
            off == Len(ConsumedBy(cycles, i - 1)) + 4
            inRange == c.hdr >= 1 /\ c.hdr <= 100000
        IN /\ (inRange /\ c.raw \in { <<255>>, <<195>> } /\ Undisturbed(c)) => ~c.decoded
           /\ (inRange /\ ~c.decoded /\ Undisturbed(c)) =>
                 /\ c.end = "continue"
                 /\ c.handled
                 /\ c.out = <<0, 0, 0, 0>>
                 /\ c.text = <<>> /\ c.calls = <<>>
                 /\ c.post = c.pre
                 /\ c.raw = SubSeq(input, off + 1, Min(off + c.hdr, Len(input)))

\* witness of C9: the frame holding the byte FF was answered with an empty
\* frame and the PING behind it with PONG
C9_Witness ==
    /\ Len(cycles) = 2
    /\ cycles[1].hdr = 1 /\ cycles[1].raw = <<255>> /\ cycles[1].out = <<0, 0, 0, 0>>
    /\ cycles[2].raw = <<80, 73, 78, 71>> /\ cycles[2].out = <<80, 79, 78, 71, 10>>

\* b is a run of response units for the request of cycle c
RECURSIVE IsUnitRun(_, _)
IsUnitRun(c, b) ==
    \/ b = <<>>
    \/ /\ SaysPing(c)
       /\ Len(b) >= 5 /\ SubSeq(b, 1, 5) = <<80, 79, 78, 71, 10>>
       /\ IsUnitRun(c, Drop(b, 5))
    \/ /\ Len(b) >= 4
       /\ LET n == b[1] + 256 * b[2] + 65536 * b[3] + 16777216 * b[4]
          IN Len(b) >= 4 + n /\ IsUnitRun(c, Drop(b, 4 + n))

\* C10 as stated: whenever the daemon is about to read a header, what each
\* cycle has put on the data channel is a run of whole units, every frame
\* carrying as many payload bytes as it declares, also after an error during
\* a response; and the audio of a synthesis that returned is an even number
\* of bytes.  It fails: a response whose payload write is rejected leaves its
\* length prefix on the channel, followed by the handler's empty frame.
C10_Original ==
    pc = "READY" =>
        \A i \in 1..Len(cycles) :
            LET c == cycles[i]
            IN /\ IsUnitRun(c, c.out)
               /\ (c.calls # <<>> /\ c.calls[1].op = "synthesize" /\ c.calls[1].ok
                     /\ Undisturbed(c)) => (Len(c.out) - 4) % 2 = 0

\* the number of lines of the diagnostic channel equal to l
CountOf(log, l) == Cardinality({ j \in 1..Len(log) : log[j] = l })

\* C11: a header read that gets fewer than 4 bytes (the stream closed after
\* 0, 1, 2 or 3 of them) ends the loop normally: the cycle writes nothing to
\* the data channel, does not go through the error handler, makes no engine
\* call and leaves the session alone; it is the last cycle, main() has
\* returned, and its last diagnostic line is the only "Daemon stopped.".
C11_ShortHeader ==
    \A i \in 1..Len(cycles) :
        LET c == cycles[i]
        IN Len(c.head) < 4 =>
              /\ c.end = "eof"
              /\ c.out = <<>> /\ ~c.rejected /\ ~c.handled
              /\ c.raw = <<>> /\ c.calls = <<>>
              /\ c.post = c.pre
              /\ i = Len(cycles) /\ ~cur.open
              /\ pc = "TERMINATED" /\ exit = "eof"
              /\ stdin = <<>>
              /\ input = ConsumedBy(cycles, i)
              /\ stdout = EmittedBy(cycles, i - 1) /\ wbuf = <<>>
              /\ stderr[Len(stderr)] = "Daemon stopped."
              /\ CountOf(stderr, "Daemon stopped.") = 1
              /\ CountOf(stderr, "ERROR") = Cardinality({ j \in 1..Len(cycles) : cycles[j].handled })

\* witness of C11: after a PING was answered the stream closed three bytes
\* into the next header, and the daemon has terminated with only PONG written
C11_Witness ==
    /\ pc = "TERMINATED"
    /\ Len(cycles) = 2
    /\ cycles[1].out = <<80, 79, 78, 71, 10>>
    /\ Len(cycles[2].head) = 3
    /\ stdout = <<80, 79, 78, 71, 10>>

\* the daemon is blocked in a read of stdin (line 48 or 63) or inside an
\* engine call (line 77 or 107)
Blocked == pc \in { "READY", "PAYLOAD", "RESOLVING", "SYNTHESIZING" }

\* C12: an interrupt that arrives while the daemon is blocked in a read or
\* inside the synthesis or voice-resolution call ends main() cleanly: the step
\* goes to TERMINATED, not to the error handler; it puts nothing on the data
\* channel and leaves nothing pending, reads nothing, changes no session
\* value, and appends the final diagnostic line and no error line; and no step
\* leaves TERMINATED, so the loop does not continue.
C12_Interrupt ==
    [][ /\ pc # "TERMINATED"
        /\ (Blocked /\ \E caught \in BOOLEAN : Interrupt(caught)) =>
              /\ pc' = "TERMINATED"
              /\ exit' = "interrupt"
              /\ stdout' = stdout /\ wbuf' = <<>>
              /\ stdin' = stdin
              /\ Session' = Session
              /\ stderr' = Append(stderr, "Daemon stopped.")
              /\ ~cur'.open
              /\ \A j \in 1..Len(cycles') :
                    cycles'[j].end = "interrupt" =>
                        /\ j = Len(cycles')
                        /\ ~cycles'[j].handled /\ cycles'[j].out = <<>>
      ]_vars

\* witness of C12: PING was answered, then the interrupt came inside the
\* synthesis call of the next request (the call never returned) and the
\* daemon has terminated with only PONG written
C12_Witness ==
    /\ pc = "TERMINATED" /\ exit = "interrupt"
    /\ Len(cycles) = 2
    /\ cycles[1].out = <<80, 79, 78, 71, 10>>
    /\ cycles[2].end = "interrupt"
    /\ cycles[2].decoded /\ cycles[2].text = <<233>> /\ cycles[2].calls = <<>>
    /\ stdout = <<80, 79, 78, 71, 10>> /\ wbuf = <<>>
    /\ stderr[Len(stderr)] = "Daemon stopped."

\* x > 0 for a float x (NaN compares false, +infinity true)
IsPositive(x) == \/ x.k = "fin" /\ ~x.neg /\ x.m > 0
                 \/ x.k = "inf" /\ ~x.neg

\* C13 as stated: in every reachable state the session speed is strictly
\* positive, and so is the speed of every synthesis call made.  It fails:
\* line 96 stores whatever float() returns, SPEED:0 included.
C13_Original ==
    /\ IsPositive(speed)
    /\ \A i \in 1..Len(AllCycles) :
          \A j \in 1..Len(AllCycles[i].calls) :
              AllCycles[i].calls[j].op = "synthesize" => IsPositive(AllCycles[i].calls[j].speed)

\* C14 as stated: whenever a payload of a header declaring L in 1..100000
\* reaches the command dispatch (it was decoded and classified as PING, QUIT,
\* a VOICE:/LANG:/SPEED: command or synthesis text), it is L bytes long.  It
\* fails: read(L) returns what is left when the stream closes early, and
\* line 63 decodes it and lines 66-113 act on it.
C14_Original ==
    \A i \in 1..Len(AllCycles) :
        LET c == AllCycles[i]
        IN (c.hdr >= 1 /\ c.hdr <= 100000 /\ c.decoded) => Len(c.raw) = c.hdr

\* nothing of the request loop has happened: no byte read, none written or
\* pending, no cycle started
LoopUntouched ==
    /\ stdin = input
    /\ stdout = <<>> /\ wbuf = <<>>
    /\ cycles = <<>> /\ ~cur.open

\* C15: the readiness line is on the diagnostic channel at most once; as long
\* as it is not there the request loop is untouched; the only step that
\* writes it is the loading step in which the engine was built and the
\* default style resolved, taken with the loop untouched and leading to the
\* header read; a loading step in which either fails writes no line and ends
\* in a crash, and no step leaves a crash.
C15_Ready ==
    /\ [](/\ CountOf(stderr, "READY") <= 1
          /\ CountOf(stderr, "READY") = 0 => LoopUntouched /\ pc \in { "LOADING", "CRASHED" }
          /\ pc = "LOADING" => CountOf(stderr, "READY") = 0)
    /\ [][ /\ pc # "CRASHED"
           /\ CountOf(stderr', "READY") > CountOf(stderr, "READY") =>
                 /\ Load(TRUE, TRUE)
                 /\ LoopUntouched /\ LoopUntouched'
                 /\ stderr' = << "LOADING", "READY" >>
                 /\ pc' = "READY"
           /\ \A engineOk \in BOOLEAN, styleOk \in BOOLEAN :
                 (Load(engineOk, styleOk) /\ ~(engineOk /\ styleOk)) =>
                     /\ stderr' = stderr /\ CountOf(stderr', "READY") = 0
                     /\ pc' = "CRASHED"
                     /\ LoopUntouched'
         ]_vars

\* witness of C15: loading succeeded, the readiness line is the second line
\* of the diagnostic channel, and the loop has since answered a PING
C15_Witness ==
    /\ stderr = << "LOADING", "READY" >>
    /\ Len(cycles) = 1
    /\ cycles[1].raw = <<80, 73, 78, 71>>
    /\ stdout = <<80, 79, 78, 71, 10>>

\* t begins with the code points p
HasPrefix(t, p) == Len(t) >= Len(p) /\ SubSeq(t, 1, Len(p)) = p

\* t is VOICE:..., LANG:... or SPEED:...
IsSetting(t) ==
    \/ HasPrefix(t, <<86, 79, 73, 67, 69, 58>>)
    \/ HasPrefix(t, <<76, 65, 78, 71, 58>>)
    \/ HasPrefix(t, <<83, 80, 69, 69, 68, 58>>)

\* t is a control command
IsControl(t) == t = <<80, 73, 78, 71>> \/ t = <<81, 85, 73, 84>> \/ IsSetting(t)

MadeSynthCall(c) == \E j \in 1..Len(c.calls) : c.calls[j].op = "synthesize"

\* C16: a decoded payload that is PING or QUIT or begins with VOICE:, LANG: or
\* SPEED: never reaches tts.synthesize, and its cycle, when undisturbed,
\* answers with one empty frame (the three settings), the raw PONG line
\* (PING) or nothing (QUIT); every other decoded payload ("PING " and
\* "voice:F1" among them) is handed to tts.synthesize as it is, in one call.
C16_Dispatch ==
    /\ (cur.open /\ cur.decoded /\ IsControl(cur.text)) =>
          pc \notin { "SYNTHESIZING", "RESPOND_LENGTH", "RESPOND_PAYLOAD", "RESPOND_FLUSH" }
    /\ (cur.open /\ cur.decoded /\ ~IsControl(cur.text)) =>
          pc \in { "SYNTHESIZING", "RESPOND_LENGTH", "RESPOND_PAYLOAD", "RESPOND_FLUSH", "HANDLER" }
    /\ \A i \in 1..Len(AllCycles) :
          LET c == AllCycles[i]
          IN /\ (c.decoded /\ IsControl(c.text)) => ~MadeSynthCall(c)
             /\ (c.decoded /\ ~IsControl(c.text)) =>
                   \A j \in 1..Len(c.calls) :
                       j = 1 /\ c.calls[j].op = "synthesize" /\ c.calls[j].text = c.text
    /\ \A i \in 1..Len(cycles) :
          LET c == cycles[i]
          IN /\ (c.decoded /\ Undisturbed(c)) =>
                   /\ IsSetting(c.text) => c.out = <<0, 0, 0, 0>> /\ c.end = "continue"
                   /\ c.text = <<80, 73, 78, 71>> => c.out = <<80, 79, 78, 71, 10>> /\ c.end = "continue"
                   /\ c.text = <<81, 85, 73, 84>> => c.out = <<>> /\ c.end = "quit"
                   /\ ~IsControl(c.text) => Len(c.calls) = 1 /\ c.end = "continue"

\* witness of C16: "PING " went to the engine and was answered with audio,
\* then VOICE:F1 was acknowledged with an empty frame and no synthesis call
C16_Witness ==
    /\ pc = "READY"
    /\ Len(cycles) = 2
    /\ cycles[1].text = <<80, 73, 78, 71, 32>>
    /\ Len(cycles[1].calls) = 1 /\ cycles[1].calls[1].op = "synthesize"
    /\ cycles[1].calls[1].ok /\ Len(cycles[1].out) > 4
    /\ cycles[2].text = <<86, 79, 73, 67, 69, 58, 70, 49>>
    /\ ~MadeSynthCall(cycles[2]) /\ cycles[2].out = <<0, 0, 0, 0>>

\* second witness of C16's near misses: lower-case "voice:F1" went to the
\* engine and the session voice is still the default
C16_WitnessLowerCase ==
    /\ Len(cycles) = 1
    /\ cycles[1].text = <<118, 111, 105, 99, 101, 58, 70, 49>>
    /\ MadeSynthCall(cycles[1]) /\ cycles[1].calls[1].text = cycles[1].text
    /\ voice_name = <<77, 49>>

\* what the commands of the cycles 1..k leave in force, told from the
\* requests and the lookup results alone: the style of the last VOICE: whose
\* lookup returned, the language of the last LANG:, the speed of the last
\* SPEED: that parsed; the defaults M1, ko and 1.05 before any of them
RECURSIVE InForce(_, _)
InForce(cs, k) ==
    IF k = 0
    THEN [style |-> [of |-> <<77, 49>>], lang |-> <<107, 111>>,
          speed |-> [k |-> "fin", neg |-> FALSE, m |-> 105, e |-> -2]]
    ELSE LET c == cs[k]
             before == InForce(cs, k - 1)
         IN IF ~c.decoded THEN before
            ELSE IF HasPrefix(c.text, <<86, 79, 73, 67, 69, 58>>)
            THEN IF c.calls # <<>> /\ c.calls[1].ok
                 THEN [before EXCEPT !.style = [of |-> Strip(Drop(c.text, 6))]]
                 ELSE before
            ELSE IF HasPrefix(c.text, <<76, 65, 78, 71, 58>>)
            THEN [before EXCEPT !.lang = Strip(Drop(c.text, 5))]
            ELSE IF HasPrefix(c.text, <<83, 80, 69, 69, 68, 58>>)
            THEN IF ParseFloat(Drop(c.text, 6)).ok
                 THEN [before EXCEPT !.speed = ParseFloat(Drop(c.text, 6)).val]
                 ELSE before
            ELSE before

IsLangRequest(c) == c.decoded /\ HasPrefix(c.text, <<76, 65, 78, 71, 58>>)

\* what a LANG: cycle does apart from the value it stores: voice, style and
\* speed stay, no engine call is made, and the undisturbed cycle writes
\* exactly one empty frame and goes on
LangFrame(c) ==
    /\ c.post.voice = c.pre.voice
    /\ c.post.style = c.pre.style
    /\ c.post.speed = c.pre.speed
    /\ c.calls = <<>>
    /\ Undisturbed(c) => c.out = <<0, 0, 0, 0>> /\ c.end = "continue" /\ ~c.handled

\* C18 as stated: a LANG: request sets the language to the text after the
\* prefix, whatever it is.  It fails: line 88 strips the remainder, so
\* "LANG: en" sets "en" and not " en".
C18_Original ==
    \A i \in 1..Len(cycles) :
        LET c == cycles[i]
        IN IsLangRequest(c) =>
              /\ c.post.lang = SubSeq(c.text, 6, Len(c.text))
              /\ LangFrame(c)

\* C18 (amended): a LANG: request sets the language to the text after the
\* prefix with the whitespace at its two ends removed, for every remainder
\* (none is rejected: the empty one sets the empty language, " en" sets
\* "en"); voice, style and speed stay and one empty frame acknowledges it.
C18_Lang ==
    \A i \in 1..Len(cycles) :
        LET c == cycles[i]
            rest == SubSeq(c.text, 6, Len(c.text))
        IN IsLangRequest(c) =>
              /\ c.post.lang = Strip(rest)
              /\ (rest # <<>> /\ ~IsSpace(rest[1]) /\ ~IsSpace(rest[Len(rest)])) => c.post.lang = rest
              /\ c.text = <<76, 65, 78, 71, 58>> => c.post.lang = <<>>
              /\ c.text = <<76, 65, 78, 71, 58, 32, 101, 110>> => c.post.lang = <<101, 110>>
              /\ LangFrame(c)

\* witness of C18: "LANG: en" set the language en, then "LANG:" set the
\* empty language; both were acknowledged and voice and speed are the defaults
C18_Witness ==
    /\ pc = "READY"
    /\ Len(cycles) = 2
    /\ cycles[1].text = <<76, 65, 78, 71, 58, 32, 101, 110>> /\ cycles[1].post.lang = <<101, 110>>
    /\ cycles[2].text = <<76, 65, 78, 71, 58>> /\ cycles[2].out = <<0, 0, 0, 0>>
    /\ lang = <<>>
    /\ voice_name = <<77, 49>> /\ speed = [k |-> "fin", neg |-> FALSE, m |-> 105, e |-> -2]

\* The frames as the client means them are read off the input from its
\* start: a header at p declaring L owns the L payload positions behind it,
\* whether or not all of them have been sent yet.  o is the position of a
\* client header when the headers from p on reach it.
RECURSIVE ClientHeaderAt(_, _, _)
ClientHeaderAt(bs, p, o) ==
    IF o = p THEN TRUE
    ELSE IF p + 4 > Len(bs) THEN FALSE
    ELSE LET L == bs[p + 1] + 256 * bs[p + 2] + 65536 * bs[p + 3] + 16777216 * bs[p + 4]
         IN IF o < p + 4 + L THEN FALSE ELSE ClientHeaderAt(bs, p + 4 + L, o)

\* C19 as stated: every 4-byte header the daemon decodes stands where the
\* client put a header, never inside the payload of a client frame, frames
\* declaring more than 100000 included.  It fails: lines 55-61 answer such a
\* header and go back to the header read without consuming its payload, so
\* the next header is taken from the first four payload bytes.
C19_Original ==
    \A i \in 1..Len(AllCycles) :
        Len(AllCycles[i].head) = 4 =>
            ClientHeaderAt(input, 0, Len(ConsumedBy(AllCycles, i - 1)))

\* main() has returned after its last diagnostic line
Stopped == pc = "TERMINATED" /\ stderr[Len(stderr)] = "Daemon stopped."

\* C20 as stated, its part on writes: a cycle in which a write to the data
\* channel failed does not go on to further requests.  It fails: a failed
\* response write goes to the handler of line 134, and when the handler's own
\* write is accepted the loop continues.
C20_Original ==
    \A i \in 1..Len(cycles) : cycles[i].rejected => cycles[i].end # "continue"

\* C20 (amended): with every call returning or raising and the stream closed
\* behind the input, the daemon that has got ready ends: main() returns after
\* its last diagnostic line, QUIT or the end of the stream reached at the
\* latest (or an interrupt inside the handler's logging ends the process).
\* It never spins: a step from the header read terminates or consumes input.
\* When the write of the empty frame inside the handler fails, that step
\* terminates the daemon; a failed write elsewhere leads to the handler, and
\* the loop goes on only when the handler's write is accepted.
C20_Terminates ==
    /\ (pc = "READY") ~> (Stopped \/ exit = "crash")
    /\ [](exit \in { "eof", "quit", "write_failed", "interrupt" } => Stopped)
    /\ [](\A i \in 1..Len(cycles) :
             (cycles[i].rejected /\ cycles[i].end = "continue") =>
                 cycles[i].handled /\ Len(cycles[i].out) >= 4)
    /\ [][ /\ (pc = "READY" /\ pc' # "TERMINATED") => Len(stdin') < Len(stdin)
           /\ Len(stdin') <= Len(stdin)
           /\ \A acc \in BOOLEAN :
                 (Handler(acc) /\ ~BufWriteFlush(wbuf, ErrorReply, acc).ok) =>
                     /\ pc' = "TERMINATED" /\ exit' = "write_failed"
                     /\ stderr'[Len(stderr')] = "Daemon stopped."
                     /\ stdin' = stdin
           /\ (pc \notin { "HANDLER", "TERMINATED", "CRASHED" } /\ cur'.open /\ cur'.rejected) =>
                 pc' = "HANDLER"
         ]_vars

\* witness of C20: the response to an oversized header was rejected, the
\* handler's empty frame was rejected too, and the daemon has stopped with a
\* whole PING frame unread
C20_Witness ==
    /\ Stopped /\ exit = "write_failed"
    /\ Len(cycles) = 1
    /\ cycles[1].hdr = 100001 /\ cycles[1].rejected /\ cycles[1].handled
    /\ stdout = <<>>
    /\ stdin = <<4, 0, 0, 0, 80, 73, 78, 71>>

====
